---- MODULE Spec2Model ----
(***************************************************************************)
(* A model of pdf-watermark-remover.py: the pattern data model and its     *)
(* matcher (ElementPattern), the pattern file (save_patterns /             *)
(* load_patterns) and the orchestrator PDFWatermarkRemover with its two    *)
(* removal pipelines, save and cleanup.  The PDF engine (fitz) is an       *)
(* external collaborator: each of its calls either succeeds with the       *)
(* documented effect or raises, chosen nondeterministically.               *)
(*                                                                         *)
(* Four specifications share the module:                                   *)
(*   SpecMatch     ElementPattern.matches applied to bounded inputs        *)
(*   SpecPatterns  add_pattern / save_patterns / load_patterns             *)
(*   SpecColors    ColorAnalyzer.analyze_image applied to bounded images   *)
(*   Spec          the orchestrator: both pipelines, save, cleanup         *)
(***************************************************************************)
EXTENDS Integers, Sequences, FiniteSets, TLC

VARIABLES
    m_pattern,   \* SpecMatch: the pattern `self` of matches
    m_element,   \* SpecMatch: the element dict handed to matches
    m_result,    \* SpecMatch: << >>, or << b >> once matches returned b
    patterns,    \* self.patterns, an ordered list of ElementPattern
    file,        \* the pattern file: whether it exists, and its JSON content
    p_saved,     \* ghost: self.patterns as it was at the last save_patterns
    p_last,      \* ghost: the last pattern-file operation that completed
    doc,         \* self.doc: the pages of the working document, in order
    docClosed,   \* whether self.doc has been closed
    temp_docs,   \* self.temp_docs: number of tracked transient documents
    openTemp,    \* transient documents that are open (tracked or not)
    pc,          \* "idle" before the removal run, a loop position in it, "done" after
    loop,        \* locals of the running range loop
    log,         \* ghost: the page attempts of the current / last range call
    reported,    \* ghost: pages the by-colour loop printed as failed
    succeeded,   \* ghost: pages on which some remove_color returned True
    last,        \* ghost: the last call that completed, and how it ended
    a_image,     \* SpecColors: the image handed to analyze_image
    a_min_pixels,\* SpecColors: self.min_pixels of the ColorAnalyzer
    a_result     \* SpecColors: << >>, or << r >> once analyze_image returned r

vars == << m_pattern, m_element, m_result, patterns, file, p_saved, p_last,
           doc, docClosed, temp_docs, openTemp, pc, loop, log, reported,
           succeeded, last, a_image, a_min_pixels, a_result >>

matchVars == << m_pattern, m_element, m_result >>
fileVars == << file, p_saved, p_last >>
mainVars == << doc, docClosed, temp_docs, openTemp, pc, loop, log, reported,
              succeeded, last >>
colorVars == << a_image, a_min_pixels, a_result >>

-----------------------------------------------------------------------------
(* Bounds of the model *)

\* Coordinates are fixed-point: an integer c stands for the float c / Scale.
Scale == 2
\* Coordinates range over 0 .. MaxCoord (in units of 1 / Scale).
MaxCoord == 2
\* Longest pattern text, in characters.
MaxTextLen == 2
\* Most lines of a text block.
MaxLines == 2
\* Most spans of a text block, over all its lines.
MaxSpans == 2

Min(a, b) == IF a < b THEN a ELSE b

Abs(x) == IF x < 0 THEN -x ELSE x

SeqsUpTo(S, n) == UNION { [1..k -> S] : k \in 0..n }

-----------------------------------------------------------------------------
(* Values *)

\* A str is a sequence of one-character strings.
Chars == {"a", "b", " "}
Letters == {"a", "b"}

\* Python keeps a tuple and a list apart: (1, 2) == [1, 2] is False.
PyTuple(items) == [py |-> "tuple", items |-> items]
PyList(items) == [py |-> "list", items |-> items]

\* ElementPattern(type, bbox, text, description)
ElementPattern(type, bbox, text, description) ==
    [type |-> type, bbox |-> bbox, text |-> text, description |-> description]

\* A text block of page.get_text("dict")["blocks"]: it has the key "lines".
TextBlock(bbox, lines) == [bbox |-> bbox, lines |-> lines]
\* An image block: it has the key "image"; xref = 0 stands for a block
\* without the key "xref" (element.get("xref", 0)).
ImageBlock(bbox, image, xref) == [bbox |-> bbox, image |-> image, xref |-> xref]
Span(text, bbox) == [text |-> text, bbox |-> bbox]
Line(spans) == [spans |-> spans]

\* "lines" in element, "image" in element
HasKey(element, key) == key \in DOMAIN element

-----------------------------------------------------------------------------
(* ElementPattern.matches *)

\* span["text"] for line in element["lines"] for span in line["spans"]
RECURSIVE SpanTexts(_)
SpanTexts(lines) ==
    IF lines = << >> THEN << >>
    ELSE [i \in 1..Len(lines[1].spans) |-> lines[1].spans[i].text]
         \o SpanTexts(Tail(lines))

\* " ".join(strs)
RECURSIVE JoinSpace(_)
JoinSpace(strs) ==
    IF strs = << >> THEN << >>
    ELSE IF Len(strs) = 1 THEN strs[1]
    ELSE strs[1] \o << " " >> \o JoinSpace(Tail(strs))

\* sub in s, for two str
StrIn(sub, s) ==
    \E i \in 0..(Len(s) - Len(sub)) : SubSeq(s, i + 1, i + Len(sub)) = sub

\* zip(a, b) of two sequences: it stops at the shorter one
Zip(a, b) == [i \in 1..Min(Len(a), Len(b)) |-> << a[i], b[i] >>]

\* A slip that would accept a difference of exactly 1.0.
CoordCloseInclusive(a, b) == Abs(a - b) <= 1 * Scale

\* abs(a - b) < 1 on floats, a and b in units of 1 / Scale
CoordClose(a, b) == Abs(a - b) < 1 * Scale

\* all(abs(a - b) < 1 for a, b in zip(self.bbox, element_bbox))
BBoxClose(pbbox, ebbox) ==
    \A i \in DOMAIN Zip(pbbox, ebbox) :
        CoordClose(Zip(pbbox, ebbox)[i][1], Zip(pbbox, ebbox)[i][2])

matches(self, element) ==
    IF self.type = "text" /\ HasKey(element, "lines")
    THEN StrIn(self.text, JoinSpace(SpanTexts(element.lines)))
    ELSE IF self.type = "image" /\ HasKey(element, "image")
    THEN BBoxClose(self.bbox.items, element.bbox)
    ELSE FALSE

-----------------------------------------------------------------------------
(* SpecMatch: matches on every pattern and element within the bounds *)

Coords == 0..MaxCoord
Texts == SeqsUpTo(Chars, MaxTextLen)
SpanStrs == SeqsUpTo(Letters, 1)
\* The bounding box the bounded elements are placed at.
BoxA == << 1, 1, 2, 2 >>
BoxB == << 0, 0, MaxCoord, MaxCoord >>

MatchPatterns ==
    { ElementPattern("text", PyTuple(BoxA), t, "") : t \in Texts }
    \cup { ElementPattern("image", PyTuple(b), << >>, "") : b \in [1..4 -> Coords] }
    \cup { ElementPattern("image", PyList(BoxA), << "a" >>, ""),
           ElementPattern("other", PyTuple(BoxA), << >>, "") }

MatchLines ==
    { Line(ss) : ss \in SeqsUpTo({ Span(s, BoxA) : s \in SpanStrs }, MaxSpans) }

MatchElements ==
    { TextBlock(BoxA, ls) : ls \in { l \in SeqsUpTo(MatchLines, MaxLines) :
                                        Len(SpanTexts(l)) <= MaxSpans } }
    \cup { ImageBlock(b, "img", x) : b \in {BoxA, BoxB}, x \in {0, 1} }

\* page_range: None, or the tuple (start, end).
NoRange == [given |-> FALSE, start |-> 0, end |-> 0]
PageRange(start, end) == [given |-> TRUE, start |-> start, end |-> end]

\* The locals of remove_watermarks / remove_watermarks_by_color.
NoLoop ==
    [op |-> "none", start_page |-> 0, end_page |-> 0, page_num |-> 0, batch_size |-> 0,
     batch_start |-> 0, batch_end |-> 0, target_colors |-> << >>, color |-> 0,
     success |-> FALSE]

\* The record of the step just taken: the operation, its page and page_range
\* arguments, how it ended, whether an engine call raised in it, and the
\* transient documents it opened and left open.
Call(op, page, arg, ret, fail, leak) ==
    [op |-> op, page |-> page, arg |-> arg, ret |-> ret, fail |-> fail,
     leak |-> leak]
NoCall == Call("none", 0, NoRange, "ok", "none", 0)

\* No pattern file has been written yet.
NoFile == [exists |-> FALSE, content |-> << >>]

\* No image has been handed to a ColorAnalyzer.
NoImage == [mode |-> "RGB", runs |-> << >>]

ColorIdle == a_image = NoImage /\ a_min_pixels = 0 /\ a_result = << >>

MatchIdle ==
    /\ patterns = << >> /\ file = NoFile /\ p_saved = << >> /\ p_last = "none"
    /\ doc = << >> /\ docClosed = FALSE /\ temp_docs = 0 /\ openTemp = 0
    /\ pc = "idle" /\ loop = NoLoop /\ log = << >> /\ reported = {}
    /\ succeeded = {} /\ last = NoCall
    /\ ColorIdle

MatchInit ==
    /\ m_pattern \in MatchPatterns
    /\ m_element \in MatchElements
    /\ m_result = << >>
    /\ MatchIdle

\* pattern.matches(element)
Matches ==
    /\ m_result = << >>
    /\ m_result' = << matches(m_pattern, m_element) >>
    /\ UNCHANGED << m_pattern, m_element, patterns, fileVars, mainVars,
                    colorVars >>

MatchNext == Matches

SpecMatch == MatchInit /\ [][MatchNext]_vars

-----------------------------------------------------------------------------
(* C2: matches against the reference predicate *)

\* The span texts of a block in reading order, taken from the last line back.
RECURSIVE C2_Flat(_)
C2_Flat(lines) ==
    IF lines = << >> THEN << >>
    ELSE C2_Flat(SubSeq(lines, 1, Len(lines) - 1))
         \o [i \in 1..Len(lines[Len(lines)].spans) |->
                lines[Len(lines)].spans[i].text]

\* The texts with one space between neighbours, built from the right end.
RECURSIVE C2_Joined(_)
C2_Joined(strs) ==
    IF strs = << >> THEN << >>
    ELSE IF Len(strs) = 1 THEN strs[1]
    ELSE C2_Joined(SubSeq(strs, 1, Len(strs) - 1)) \o << " " >> \o strs[Len(strs)]

C2_Substring(sub, s) ==
    \E i \in 0..Len(s) : \E j \in i..Len(s) :
        s = SubSeq(s, 1, i) \o sub \o SubSeq(s, j + 1, Len(s))

C2_Reference(p, e) ==
    \/ /\ p.type = "text"
       /\ "lines" \in DOMAIN e
       /\ C2_Substring(p.text, C2_Joined(C2_Flat(e.lines)))
    \/ /\ p.type = "image"
       /\ "image" \in DOMAIN e
       /\ \A k \in 1..4 :
            /\ p.bbox.items[k] - e.bbox[k] < Scale
            /\ e.bbox[k] - p.bbox.items[k] < Scale

\* C2: matches returns exactly the reference predicate: a text pattern
\* matches iff the element is a text block whose space-joined span texts
\* contain pattern.text (so the empty text matches every text block); an
\* image pattern matches iff the element is an image block and each of the
\* four coordinates differs by strictly less than 1.0; no match across kinds.
C2_MatchesIsReference ==
    m_result # << >> =>
        /\ m_result[1] = C2_Reference(m_pattern, m_element)
        /\ (m_pattern.type = "text" /\ m_pattern.text = << >>
                /\ "lines" \in DOMAIN m_element) => m_result[1]
        /\ (m_pattern.type = "text" /\ "image" \in DOMAIN m_element)
                => ~m_result[1]
        /\ (m_pattern.type = "image" /\ "lines" \in DOMAIN m_element)
                => ~m_result[1]

\* A text pattern of two characters matched across a span boundary.
C2_Witness ==
    /\ m_result = << TRUE >>
    /\ m_pattern.type = "text"
    /\ m_pattern.text = << " ", "b" >>
    /\ Len(m_element.lines) = 2

-----------------------------------------------------------------------------
(* The pattern file: to_dict / from_dict, save_patterns / load_patterns *)

\* Most patterns an orchestrator holds.
MaxPatterns == 2

\* ElementPattern.to_dict: asdict(self). asdict copies a tuple as a tuple
\* and a list as a list.
to_dict(self) ==
    [type |-> self.type, bbox |-> self.bbox, text |-> self.text,
     description |-> self.description]

\* ElementPattern.from_dict: cls(**data); no field is converted.
from_dict(data) ==
    ElementPattern(data.type, data.bbox, data.text, data.description)

\* json.dump of one value of a pattern dict: a tuple and a list are both
\* written as a JSON array, a str as a JSON string.
JsonArray(items) == [js |-> "array", items |-> items]
JsonString(str) == [js |-> "string", chars |-> str]

\* json.dump(patterns_data, f, ensure_ascii=False, indent=2)
json_dump(patterns_data) ==
    [i \in DOMAIN patterns_data |->
        [type |-> JsonString(patterns_data[i].type),
         bbox |-> JsonArray(patterns_data[i].bbox.items),
         text |-> JsonString(patterns_data[i].text),
         description |-> JsonString(patterns_data[i].description)]]

\* json.load(f): a JSON array is read as a list, a JSON string as a str.
json_load(content) ==
    [i \in DOMAIN content |->
        [type |-> content[i].type.chars,
         bbox |-> PyList(content[i].bbox.items),
         text |-> content[i].text.chars,
         description |-> content[i].description.chars]]

\* Bounding boxes on a page: a watermark text, a picture, the whole page.
BoxText == << 0, 0, 4, 2 >>
BoxImage == << 6, 6, 12, 12 >>
PageRect == << 0, 0, 16, 16 >>

\* The watermark patterns a caller registers: the text "a", and the picture.
Watermarks ==
    { ElementPattern("text", PyTuple(BoxText), << "a" >>, "wm"),
      ElementPattern("image", PyTuple(BoxImage), << >>, "logo") }

\* The patterns an orchestrator is given in SpecPatterns.
PatternPool ==
    Watermarks \cup { ElementPattern("image", PyList(BoxA), << >>, "") }

\* add_pattern(pattern): appends whenever it is called, before or after a
\* removal run (the calls of one orchestrator do not interleave, so not
\* while a range loop is running)
AddPattern(pattern) ==
    /\ pc \in {"idle", "done"}
    /\ Len(patterns) < MaxPatterns
    /\ patterns' = Append(patterns, pattern)

\* save_patterns(file_path)
SavePatterns ==
    /\ file' = [exists |-> TRUE,
                content |-> json_dump([i \in DOMAIN patterns |-> to_dict(patterns[i])])]
    /\ p_saved' = patterns
    /\ p_last' = "save"
    /\ UNCHANGED patterns

\* load_patterns(file_path): open raises when there is no file, and
\* self.patterns is assigned only after the file was read.
LoadPatterns ==
    IF ~file.exists
    THEN /\ p_last' = "load_raised"
         /\ UNCHANGED << patterns, file, p_saved >>
    ELSE /\ patterns' = [i \in DOMAIN json_load(file.content) |->
                            from_dict(json_load(file.content)[i])]
         /\ p_last' = "load"
         /\ UNCHANGED << file, p_saved >>

PatInit ==
    /\ m_pattern = << >> /\ m_element = << >> /\ m_result = << >>
    /\ MatchIdle

PatAdd ==
    /\ \E p \in PatternPool : AddPattern(p)
    /\ p_last' = "add"
    /\ UNCHANGED << file, p_saved, matchVars, mainVars, colorVars >>

PatSave == SavePatterns /\ UNCHANGED << matchVars, mainVars, colorVars >>

PatLoad == LoadPatterns /\ UNCHANGED << matchVars, mainVars, colorVars >>

PatNext == PatAdd \/ PatSave \/ PatLoad

SpecPatterns == PatInit /\ [][PatNext]_vars

\* C10: round-trip law: after save_patterns then load_patterns the
\* collection equals the saved one: same length, same order, each pattern
\* with identical type, bbox, text and description.
C10_RoundTrip == p_last = "load" => patterns = p_saved

\* What the round trip does keep: everything but the sequence type of bbox,
\* which comes back as a list.
C10_RoundTripUpToList ==
    p_last = "load" =>
        /\ Len(patterns) = Len(p_saved)
        /\ \A i \in DOMAIN patterns :
            patterns[i] = [p_saved[i] EXCEPT !.bbox = PyList(p_saved[i].bbox.items)]

-----------------------------------------------------------------------------
(* The working document and the engine calls on it *)

\* Most pages of the working document.
MaxPages == 2
\* Most transient documents the model lets stay open at once.
MaxOpen == 1

\* Target colours, as opaque (r, g, b) triples.
Colors == {"c1", "c2"}

\* A page: the blocks get_text("dict") returns for it, and, for a page that
\* remove_color has flattened, the colours whitened in its raster image.
Page(id, elems, white) == [id |-> id, elems |-> elems, white |-> white]

\* The pages of an input document.  Odd pages hold a watermark text and a
\* picture with an image reference; even pages hold a picture whose block
\* has no "xref" key, and a text block of two spans.
PageElements(id) ==
    IF id % 2 = 1
    THEN << TextBlock(BoxText, << Line(<< Span(<< "a" >>, BoxText) >>) >>),
            ImageBlock(BoxImage, "img", 1) >>
    ELSE << ImageBlock(BoxImage, "img", 0),
            TextBlock(BoxText, << Line(<< Span(<< "b" >>, BoxText),
                                         Span(<< "a" >>, BoxText) >>) >>) >>

OriginalPage(id) == Page(id, PageElements(id), {})

\* self.doc[page_num] raises IndexError unless the page exists.
ValidIndex(d, page_num) == 0 <= page_num /\ page_num < Len(d)

\* self.doc.delete_page(page_num): the later pages move down by one.
delete_page(d, page_num) ==
    SubSeq(d, 1, page_num) \o SubSeq(d, page_num + 2, Len(d))

\* self.doc.insert_pdf(temp_doc, from_page=0, to_page=0, start_at=page_num)
insert_pdf(d, page, start_at) ==
    SubSeq(d, 1, start_at) \o << page >> \o SubSeq(d, start_at + 1, Len(d))

\* The points at which an engine call of a page rebuild may raise:
\*   read    before the transient document exists (get_text, get_pixmap, open)
\*   build   on the transient page (new_page, draw_rect, insert_image)
\*   delete  in self.doc.delete_page
\*   insert  in self.doc.insert_pdf, after delete_page succeeded
FailPoints == {"none", "read", "build", "delete", "insert"}

-----------------------------------------------------------------------------
(* create_clean_page *)

\* should_keep: no registered pattern matches the element.
should_keep(pats, element) ==
    ~ \E i \in DOMAIN pats : matches(pats[i], element)

\* The draw calls create_clean_page makes for the kept elements: one
\* insert_text per span << e, l, s >>, one extract_image / insert_image per
\* picture with a positive xref << e, 0, 0 >>.  The engine decides each: it
\* succeeds, it raises (the set `bad`), or, for a picture, extract_image
\* returns a falsy value without raising (the set `empty`).
DrawCalls(elems, pats) ==
    { << e, l, s >> \in (DOMAIN elems) \X (0..MaxSpans) \X (0..MaxSpans) :
        /\ should_keep(pats, elems[e])
        /\ IF HasKey(elems[e], "lines")
           THEN l \in DOMAIN elems[e].lines /\ s \in DOMAIN elems[e].lines[l].spans
           ELSE l = 0 /\ s = 0 /\ HasKey(elems[e], "image") /\ elems[e].xref > 0 }

\* The spans of line l of element e whose insert_text did not raise.
DrawnSpans(element, e, l, bad) ==
    LET spans == element.lines[l].spans
        Keep(i) == << e, l, i >> \notin bad
        RECURSIVE Pick(_)
        Pick(i) == IF i > Len(spans) THEN << >>
                   ELSE (IF Keep(i) THEN << spans[i] >> ELSE << >>) \o Pick(i + 1)
    IN  Pick(1)

\* The lines of a kept text block as redrawn: each span is inserted at the
\* top-left corner of its bbox with its text; a line none of whose spans was
\* drawn leaves nothing on the page.
DrawnLines(element, e, bad) ==
    LET RECURSIVE Pick(_)
        Pick(l) == IF l > Len(element.lines) THEN << >>
                   ELSE (IF DrawnSpans(element, e, l, bad) = << >> THEN << >>
                         ELSE << Line(DrawnSpans(element, e, l, bad)) >>)
                        \o Pick(l + 1)
    IN  Pick(1)

\* The extract_image calls that may return a falsy value.
ImageCalls(elems, pats) ==
    { c \in DrawCalls(elems, pats) : HasKey(elems[c[1]], "image") }

\* What one element leaves on the transient page (lines 161-195): nothing if
\* a pattern matches it; a text block's drawn spans; a picture, at
\* fitz.Rect(element["bbox"]), only if its xref is positive, extract_image
\* returned image data (if image_data:) and neither extract_image nor
\* insert_image raised.
DrawElement(pats, element, e, bad, empty) ==
    IF ~ should_keep(pats, element) THEN << >>
    ELSE IF HasKey(element, "lines")
    THEN IF DrawnLines(element, e, bad) = << >> THEN << >>
         ELSE << TextBlock(element.bbox, DrawnLines(element, e, bad)) >>
    ELSE IF HasKey(element, "image")
    THEN IF /\ element.xref > 0
               /\ << e, 0, 0 >> \notin empty
               /\ << e, 0, 0 >> \notin bad
         THEN << ImageBlock(element.bbox, element.image, element.xref) >>
         ELSE << >>
    ELSE << >>

\* The transient page after the loop over the elements.
CleanElements(pats, elems, bad, empty) ==
    LET RECURSIVE Build(_)
        Build(e) == IF e > Len(elems) THEN << >>
                    ELSE DrawElement(pats, elems[e], e, bad, empty)
                         \o Build(e + 1)
    IN  Build(1)

CleanPage(pats, page, bad, empty) ==
    Page(page.id, CleanElements(pats, page.elems, bad, empty), {})

\* create_clean_page(page_num): the document after the call, how the call
\* ended, and the transient documents it opened and did not close
\* (temp_doc.close() is the last statement, reached only when nothing raised).
create_clean_page(d, closed, pats, page_num, fail, bad, empty) ==
    IF closed
    THEN [doc |-> d, ret |-> "DocumentClosed", leak |-> 0]
    ELSE IF ~ ValidIndex(d, page_num)
    THEN [doc |-> d, ret |-> "IndexError", leak |-> 0]
    ELSE IF fail = "read"
    THEN [doc |-> d, ret |-> "EngineError", leak |-> 0]
    ELSE IF fail \in {"build", "delete"}
    THEN [doc |-> d, ret |-> "EngineError", leak |-> 1]
    ELSE IF fail = "insert"
    THEN [doc |-> delete_page(d, page_num), ret |-> "EngineError", leak |-> 1]
    ELSE [doc |-> insert_pdf(delete_page(d, page_num),
                             CleanPage(pats, d[page_num + 1], bad, empty),
                             page_num),
          ret |-> "ok", leak |-> 0]

-----------------------------------------------------------------------------
(* remove_color *)

\* The page remove_color builds: one full-page raster image (a block with
\* no "xref" key) in which the pixels within tolerance of target_color, and
\* those whitened before, are white.
RasterPage(page, color) ==
    Page(page.id, << ImageBlock(PageRect, "raster", 0) >>, page.white \cup {color})

\* finally: while self.temp_docs: pop and close.  The tracked documents left
\* afterwards, and how many documents it closed.
CloseTracked(tracked) == [temp_docs |-> 0, closed |-> tracked]

\* remove_color(page_num, target_color): the document after the call, the
\* value returned (every exception is caught and turned into False), and
\* the transient documents opened (each is appended to self.temp_docs).
remove_color(d, closed, page_num, color, fail) ==
    IF closed \/ ~ ValidIndex(d, page_num) \/ fail = "read"
    THEN [doc |-> d, ret |-> FALSE, opened |-> 0]
    ELSE IF fail \in {"build", "delete"}
    THEN [doc |-> d, ret |-> FALSE, opened |-> 1]
    ELSE IF fail = "insert"
    THEN [doc |-> delete_page(d, page_num), ret |-> FALSE, opened |-> 1]
    ELSE [doc |-> insert_pdf(delete_page(d, page_num),
                             RasterPage(d[page_num + 1], color), page_num),
          ret |-> TRUE, opened |-> 1]

-----------------------------------------------------------------------------
(* cleanup and save *)

\* fitz Document.close(): it raises ValueError on a closed document.
EngineClose(closed) == [closed |-> TRUE, raised |-> closed]

\* self.doc.close() without the try / except around it.
CloseDocUnguarded(closed) == EngineClose(closed)

\* try: self.doc.close() / except: pass
CloseDoc(closed) == [closed |-> EngineClose(closed).closed, raised |-> FALSE]

\* cleanup(): every tracked transient document is closed and the list
\* cleared, then the working document is closed; every close is guarded.
cleanup(tracked, open, closed) ==
    [temp_docs |-> 0,
     openTemp |-> open - tracked,
     docClosed |-> CloseDoc(closed).closed,
     ret |-> IF CloseDoc(closed).raised THEN "ValueError" ELSE "ok"]

\* The points at which save may fail: fitz.open() of the output document,
\* a batch of temp_doc.insert_pdf, temp_doc.save.
SaveFailPoints == {"none", "open", "copy", "write"}

\* A slip that would release the resources on the success path only.
saveNoFinally(closed, fail) ==
    IF fail = "none" /\ ~ closed
    THEN [ret |-> "saved", leak |-> 0, cleanup |-> TRUE]
    ELSE [ret |-> "error", leak |-> IF fail = "open" THEN 0 ELSE 1,
          cleanup |-> FALSE]

\* save(output_path, batch_size): how it ended ("saved", or "error" for an
\* exception caught and printed: len(self.doc) raises on a closed document),
\* the output document left open, and whether cleanup ran.  The finally
\* clause closes the output document, if fitz.open() returned one, and
\* calls cleanup().
save(closed, fail) ==
    [ret |-> IF fail = "none" /\ ~ closed THEN "saved" ELSE "error",
     leak |-> 0,
     cleanup |-> TRUE]

-----------------------------------------------------------------------------
(* Range validation and the loops over a range *)

\* Longest list of target colours.
MaxColors == 2
\* Largest batch_size.
MaxBatch == 2

\* if not self.patterns
NoPatterns(pats) == pats = << >>

\* A slip that would forget the upper bound.
InvalidRangeNoUpper(start, end, n) == start < 0 \/ start > end

\* start_page < 0 or end_page >= len(self.doc) or start_page > end_page
InvalidRange(start, end, n) == start < 0 \/ end >= n \/ start > end

\* How the range test of both pipelines ends.  len(self.doc) raises
\* ValueError on a closed document; with an explicit range it is evaluated
\* only when start_page < 0 is false.
RangeCheck(page_range, closed, n) ==
    IF page_range.given /\ page_range.start < 0 THEN "InvalidRange"
    ELSE IF closed THEN "DocumentClosed"
    ELSE IF page_range.given /\ InvalidRange(page_range.start, page_range.end, n)
    THEN "InvalidRange"
    ELSE "ok"

StartPage(page_range) == IF page_range.given THEN page_range.start ELSE 0
EndPage(page_range, n) == IF page_range.given THEN page_range.end ELSE n - 1

\* A slip that would forget the min.
BatchEndNoMin(batch_start, batch_size, end_page) == batch_start + batch_size

\* batch_end = min(batch_start + batch_size, end_page + 1)
BatchEnd(batch_start, batch_size, end_page) ==
    Min(batch_start + batch_size, end_page + 1)

\* A slip that would keep the last colour's result only.
PageSuccessLast(success, returned) == returned

\* if self.remove_color(...): success = True
PageSuccess(success, returned) == success \/ returned

Ranges ==
    {NoRange} \cup { PageRange(s, e) : s \in -1..MaxPages, e \in -1..MaxPages }

ColorLists ==
    { cs \in SeqsUpTo(Colors, MaxColors) :
        \A i, j \in DOMAIN cs : i # j => cs[i] # cs[j] }

\* The engine failure a page rebuild is recorded with: "raised" when a call
\* of the rebuild raised, "draw" when only draw calls of single elements
\* raised (and were caught).
FailLabel(fail, bad, empty) ==
    IF fail # "none" THEN "raised"
    ELSE IF bad # {} THEN "draw"
    ELSE IF empty # {} THEN "empty"
    ELSE "none"

\* The failures the engine may choose for a rebuild of page page_num: a call
\* that raises, or a set of draw calls that raise and a set of extract_image
\* calls that return nothing.  A failure that leaves a transient document
\* open is taken only while fewer than MaxOpen are open.
Failures(page_num) ==
    { f \in FailPoints \X
            (IF ~ docClosed /\ ValidIndex(doc, page_num)
             THEN SUBSET DrawCalls(doc[page_num + 1].elems, patterns)
             ELSE {{}}) \X
            (IF ~ docClosed /\ ValidIndex(doc, page_num)
             THEN SUBSET ImageCalls(doc[page_num + 1].elems, patterns)
             ELSE {{}}) :
        /\ f[1] # "none" => (f[2] = {} /\ f[3] = {})
        /\ f[2] \cap f[3] = {} }

\* The effect of one create_clean_page call.
CleanPageStep(page_num, fail, bad, empty) ==
    LET r == create_clean_page(doc, docClosed, patterns, page_num, fail, bad,
                               empty)
    IN  /\ openTemp + r.leak <= MaxOpen
        /\ doc' = r.doc
        /\ openTemp' = openTemp + r.leak
        /\ last' = Call("create_clean_page", page_num, NoRange, r.ret,
                        FailLabel(fail, bad, empty), r.leak)
        /\ UNCHANGED << docClosed, temp_docs, patterns >>

\* The effect of one remove_color call, its finally clause included.
ColorStep(page_num, color, fail) ==
    LET r == remove_color(doc, docClosed, page_num, color, fail)
        c == CloseTracked(temp_docs + r.opened)
    IN  /\ doc' = r.doc
        /\ temp_docs' = c.temp_docs
        /\ openTemp' = openTemp + r.opened - c.closed
        /\ last' = Call("remove_color", page_num, NoRange,
                        IF r.ret THEN "True" ELSE "False",
                        FailLabel(fail, {}, {}),
                        temp_docs + r.opened - c.closed)
        /\ UNCHANGED << docClosed, patterns >>

-----------------------------------------------------------------------------
(* Spec: the orchestrator *)

Init ==
    /\ m_pattern = << >> /\ m_element = << >> /\ m_result = << >>
    /\ patterns = << >> /\ file = NoFile /\ p_saved = << >> /\ p_last = "none"
    /\ doc \in { [k \in 1..n |-> OriginalPage(k)] : n \in 1..MaxPages }
    /\ docClosed = FALSE /\ temp_docs = 0 /\ openTemp = 0
    /\ pc = "idle" /\ loop = NoLoop /\ log = << >> /\ reported = {}
    /\ succeeded = {} /\ last = NoCall
    /\ ColorIdle

loopVars == << pc, loop, log, reported, succeeded >>

\* main() makes one removal run per orchestrator (lines 421-503): a range
\* call is made on an orchestrator whose loop has not run yet; afterwards
\* the document is saved and the orchestrator cleaned up.
FirstRun == pc = "idle"

otherVars == << matchVars, fileVars, colorVars >>

\* add_pattern(pattern)
DoAddPattern ==
    /\ \E p \in Watermarks : AddPattern(p)
    /\ last' = Call("add_pattern", 0, NoRange, "ok", "none", 0)
    /\ UNCHANGED << doc, docClosed, temp_docs, openTemp, loopVars, otherVars >>

\* cleanup(), also run by __del__
DoCleanup ==
    /\ pc \in {"idle", "done"}
    /\ LET r == cleanup(temp_docs, openTemp, docClosed)
       IN  /\ temp_docs' = r.temp_docs
           /\ openTemp' = r.openTemp
           /\ docClosed' = r.docClosed
           /\ last' = Call("cleanup", 0, NoRange, r.ret,
                           IF EngineClose(docClosed).raised THEN "raised" ELSE "none", 0)
    /\ UNCHANGED << doc, patterns, loopVars, otherVars >>

\* save(output_path, batch_size)
DoSave ==
    /\ pc \in {"idle", "done"}
    /\ \E fail \in SaveFailPoints :
        LET s == save(docClosed, fail)
            r == cleanup(temp_docs, openTemp, docClosed)
        IN  /\ openTemp + s.leak <= MaxOpen
            /\ temp_docs' = IF s.cleanup THEN r.temp_docs ELSE temp_docs
            /\ openTemp' = (IF s.cleanup THEN r.openTemp ELSE openTemp) + s.leak
            /\ docClosed' = IF s.cleanup THEN r.docClosed ELSE docClosed
            /\ last' = Call("save", 0, NoRange,
                            IF s.cleanup /\ r.ret # "ok" THEN r.ret ELSE s.ret,
                            fail, s.leak)
    /\ UNCHANGED << doc, patterns, loopVars, otherVars >>

\* remove_watermarks(page_range): the tests before the loop
RemoveWatermarks ==
    /\ FirstRun
    /\ \E page_range \in Ranges :
        LET err == IF NoPatterns(patterns) THEN "NoPatterns"
                   ELSE RangeCheck(page_range, docClosed, Len(doc))
        IN  IF err # "ok"
            THEN /\ last' = Call("remove_watermarks", 0, page_range, err, "none", 0)
                 /\ UNCHANGED loopVars
            ELSE /\ pc' = "rw"
                 /\ loop' = [NoLoop EXCEPT
                                !.op = "remove_watermarks",
                                !.start_page = StartPage(page_range),
                                !.end_page = EndPage(page_range, Len(doc)),
                                !.page_num = StartPage(page_range)]
                 /\ log' = << >> /\ reported' = {} /\ succeeded' = {}
                 /\ last' = Call("remove_watermarks", 0, page_range, "running",
                                 "none", 0)
    /\ UNCHANGED << doc, docClosed, temp_docs, openTemp, patterns, otherVars >>

\* remove_watermarks: one page of the loop; an exception of
\* create_clean_page is printed and the loop continues
RWPage ==
    /\ pc = "rw"
    /\ loop.page_num <= loop.end_page
    /\ \E f \in Failures(loop.page_num) :
        /\ CleanPageStep(loop.page_num, f[1], f[2], f[3])
        /\ succeeded' = IF f[1] = "none" /\ ValidIndex(doc, loop.page_num) /\ ~ docClosed
                        THEN succeeded \cup {loop.page_num} ELSE succeeded
    /\ log' = Append(log, [page |-> loop.page_num, color |-> "-"])
    /\ loop' = [loop EXCEPT !.page_num = loop.page_num + 1]
    /\ UNCHANGED << pc, reported, otherVars >>

\* remove_watermarks: the range is exhausted
RWDone ==
    /\ pc = "rw"
    /\ loop.page_num > loop.end_page
    /\ pc' = "done"
    /\ last' = Call("remove_watermarks", 0, PageRange(loop.start_page, loop.end_page),
                    "ok", "none", 0)
    /\ UNCHANGED << doc, docClosed, temp_docs, openTemp, patterns, loop, log,
                    reported, succeeded, otherVars >>

Running(page) ==
    Call("remove_watermarks_by_color", page,
         PageRange(loop.start_page, loop.end_page), "running", "none", 0)

\* remove_watermarks_by_color(target_colors, page_range, batch_size=...):
\* the range test before the loop
RemoveWatermarksByColor ==
    /\ FirstRun
    /\ \E page_range \in Ranges :
        LET err == RangeCheck(page_range, docClosed, Len(doc))
        IN  IF err # "ok"
            THEN /\ last' = Call("remove_watermarks_by_color", 0, page_range,
                                 err, "none", 0)
                 /\ UNCHANGED loopVars
            ELSE \E target_colors \in ColorLists, batch_size \in 1..MaxBatch :
                 /\ pc' = "batch"
                 /\ loop' = [NoLoop EXCEPT
                                !.op = "remove_watermarks_by_color",
                                !.start_page = StartPage(page_range),
                                !.end_page = EndPage(page_range, Len(doc)),
                                !.batch_size = batch_size,
                                !.batch_start = StartPage(page_range),
                                !.target_colors = target_colors]
                 /\ log' = << >> /\ reported' = {} /\ succeeded' = {}
                 /\ last' = Call("remove_watermarks_by_color", 0, page_range,
                                 "running", "none", 0)
    /\ UNCHANGED << doc, docClosed, temp_docs, openTemp, patterns, otherVars >>

\* for batch_start in range(start_page, end_page + 1, batch_size): next batch
RWCBatch ==
    /\ pc = "batch"
    /\ loop.batch_start <= loop.end_page
    /\ pc' = "page"
    /\ loop' = [loop EXCEPT
                   !.batch_end = BatchEnd(loop.batch_start, loop.batch_size,
                                          loop.end_page),
                   !.page_num = loop.batch_start]
    /\ last' = Running(loop.batch_start)
    /\ UNCHANGED << doc, docClosed, temp_docs, openTemp, patterns, log, reported,
                    succeeded, otherVars >>

\* the batches are exhausted
RWCDone ==
    /\ pc = "batch"
    /\ loop.batch_start > loop.end_page
    /\ pc' = "done"
    /\ last' = Call("remove_watermarks_by_color", 0,
                    PageRange(loop.start_page, loop.end_page), "ok", "none", 0)
    /\ UNCHANGED << doc, docClosed, temp_docs, openTemp, patterns, loop, log,
                    reported, succeeded, otherVars >>

\* for page_num in range(batch_start, batch_end): next page
RWCPage ==
    /\ pc = "page"
    /\ loop.page_num < loop.batch_end
    /\ pc' = "color"
    /\ loop' = [loop EXCEPT !.success = FALSE, !.color = 1]
    /\ last' = Running(loop.page_num)
    /\ UNCHANGED << doc, docClosed, temp_docs, openTemp, patterns, log, reported,
                    succeeded, otherVars >>

\* the batch is exhausted: gc.collect()
RWCBatchEnd ==
    /\ pc = "page"
    /\ loop.page_num >= loop.batch_end
    /\ pc' = "batch"
    /\ loop' = [loop EXCEPT !.batch_start = loop.batch_start + loop.batch_size]
    /\ last' = Running(loop.page_num)
    /\ UNCHANGED << doc, docClosed, temp_docs, openTemp, patterns, log, reported,
                    succeeded, otherVars >>

\* for color in target_colors: one remove_color call
RWCColor ==
    /\ pc = "color"
    /\ loop.color <= Len(loop.target_colors)
    /\ \E fail \in FailPoints :
        /\ ColorStep(loop.page_num, loop.target_colors[loop.color], fail)
        /\ LET returned == remove_color(doc, docClosed, loop.page_num,
                                        loop.target_colors[loop.color], fail).ret
           IN  /\ loop' = [loop EXCEPT
                              !.success = PageSuccess(loop.success, returned),
                              !.color = loop.color + 1]
               /\ succeeded' = IF returned THEN succeeded \cup {loop.page_num}
                               ELSE succeeded
    /\ log' = Append(log, [page |-> loop.page_num,
                           color |-> loop.target_colors[loop.color]])
    /\ UNCHANGED << pc, reported, otherVars >>

\* the colours are exhausted: if not success, the page is printed as failed
RWCPageEnd ==
    /\ pc = "color"
    /\ loop.color > Len(loop.target_colors)
    /\ pc' = "page"
    /\ reported' = IF loop.success THEN reported ELSE reported \cup {loop.page_num}
    /\ loop' = [loop EXCEPT !.page_num = loop.page_num + 1]
    /\ last' = Running(loop.page_num)
    /\ UNCHANGED << doc, docClosed, temp_docs, openTemp, patterns, log,
                    succeeded, otherVars >>

Next ==
    \/ DoAddPattern
    \/ DoCleanup
    \/ DoSave
    \/ RemoveWatermarks
    \/ RWPage
    \/ RWDone
    \/ RemoveWatermarksByColor
    \/ RWCBatch
    \/ RWCDone
    \/ RWCPage
    \/ RWCBatchEnd
    \/ RWCColor
    \/ RWCPageEnd

Spec == Init /\ [][Next]_vars

-----------------------------------------------------------------------------
(* ColorAnalyzer: analyze_image *)

\* An image is its mode and its pixel data, image.getdata(), written as
\* runs: << [value |-> v, n |-> 3] >> is three pixels of value v in a
\* row.  Most runs of an image, the longest short run, and the length of
\* a long run (a large area of one colour).
MaxRuns == 3
MaxRun == 2
BigRun == 2001

\* ColorAnalyzer.__init__(tolerance=0.05, min_pixels=100); tolerance is
\* kept in hundredths.
tolerance == 5
min_pixels == 100

\* Pixel values of an RGB image, and of a greyscale ("L") one, each a tuple
\* of its channels (one channel for a grey level): at the
\* default tolerance (12.75 per channel) the second colour is similar to
\* the other two, which are not similar to each other.
RgbColors == { <<0, 0, 0>>, <<12, 12, 12>>, <<13, 0, 0>> }
GrayLevels == { <<0>>, <<13>> }

\* Two run lengths that make shares of 49/160 and 111/160 possible:
\* 30.625 % and 69.375 %, each exactly between two hundredths.
TieRuns == {49, 111}

RunLens == (1..MaxRun) \cup TieRuns \cup {BigRun}

Run(value, n) == [value |-> value, n |-> n]

Images ==
    { [mode |-> "RGB", runs |-> rs] :
        rs \in UNION { [1..k -> { Run(c, n) : c \in RgbColors, n \in RunLens }]
                       : k \in 1..MaxRuns } }
    \cup
    { [mode |-> "L", runs |-> rs] :
        rs \in UNION { [1..k -> { Run(g, n) : g \in GrayLevels, n \in RunLens }]
                       : k \in 1..MaxRuns } }

\* self.min_pixels as the caller may set it
MinPixelsChoices == {1, min_pixels}

\* if image.mode != 'RGB': image = image.convert('RGB')
\* (a grey level g becomes (g, g, g))
convert(image) ==
    IF image.mode # "RGB"
    THEN [mode |-> "RGB",
          runs |-> [i \in DOMAIN image.runs |->
                      Run(<< image.runs[i].value[1], image.runs[i].value[1],
                             image.runs[i].value[1] >>, image.runs[i].n)]]
    ELSE image

\* len(pixels)
RECURSIVE total_pixels(_)
total_pixels(runs) ==
    IF runs = << >> THEN 0
    ELSE runs[Len(runs)].n + total_pixels(SubSeq(runs, 1, Len(runs) - 1))

\* Counter(pixels).items(): the distinct colours in the order of their
\* first pixel, each with the number of its pixels
RECURSIVE Counter(_)
Counter(runs) ==
    IF runs = << >> THEN << >>
    ELSE LET c == Counter(SubSeq(runs, 1, Len(runs) - 1))
             r == runs[Len(runs)]
         IN  IF \E i \in DOMAIN c : c[i].color = r.value
             THEN [i \in DOMAIN c |->
                     IF c[i].color = r.value
                     THEN [c[i] EXCEPT !.count = @ + r.n]
                     ELSE c[i]]
             ELSE Append(c, [color |-> r.value, count |-> r.n])

\* A slip that would call two colours similar when any channel is close.
similar_colorsAny(color1, color2) ==
    \E i \in 1..3 : Abs(color1[i] - color2[i]) * 100 <= tolerance * 255

\* all(abs(c1 - c2) <= self.tolerance * 255 for c1, c2 in zip(color1, color2))
similar_colors(color1, color2) ==
    \A i \in 1..3 : Abs(color1[i] - color2[i]) * 100 <= tolerance * 255

\* the loop that fills merged_colors: a colour below the floor is skipped,
\* a colour similar to an existing key is added to the first such key,
\* any other colour becomes a new key
RECURSIVE merged_colors(_, _)
merged_colors(color_counts, floor) ==
    IF color_counts = << >> THEN << >>
    ELSE LET merged == merged_colors(SubSeq(color_counts, 1,
                                            Len(color_counts) - 1), floor)
             item == color_counts[Len(color_counts)]
             sim == { i \in DOMAIN merged :
                        similar_colors(item.color, merged[i].color) }
         IN  IF item.count < floor THEN merged
             ELSE IF sim # {}
             THEN LET k == CHOOSE i \in sim : \A j \in sim : i <= j
                  IN  [merged EXCEPT ![k].count = @ + item.count]
             ELSE Append(merged, item)

\* percentage = (count / total_pixels) * 100 is computed in binary floating
\* point (IEEE 754 double: 53 significant bits, round to nearest, ties to
\* even) and round(percentage, 2) rounds the float that results, so where
\* 100 * count / total lies exactly between two hundredths the float's error
\* decides.  Large naturals are sequences of bits, least significant first.
RECURSIVE NatBits(_)
NatBits(n) == IF n = 0 THEN << >> ELSE << n % 2 >> \o NatBits(n \div 2)

\* bits * k + carry
RECURSIVE MulSmall(_, _, _)
MulSmall(bits, k, carry) ==
    IF bits = << >> THEN NatBits(carry)
    ELSE LET v == Head(bits) * k + carry
         IN  << v % 2 >> \o MulSmall(Tail(bits), k, v \div 2)

\* bits + carry
RECURSIVE AddSmall(_, _)
AddSmall(bits, carry) ==
    IF carry = 0 THEN bits
    ELSE IF bits = << >> THEN NatBits(carry)
    ELSE LET v == Head(bits) + carry
         IN  << v % 2 >> \o AddSmall(Tail(bits), v \div 2)

\* bits * 2^n
ShiftLeft(bits, n) == [i \in 1..n |-> 0] \o bits

\* The value of a short sequence of bits.
RECURSIVE BitsNat(_)
BitsNat(bits) ==
    IF bits = << >> THEN 0 ELSE Head(bits) + 2 * BitsNat(Tail(bits))

\* -1, 0 or 1 as a < b, a = b or a > b (no leading zero bits)
CompareBits(a, b) ==
    IF Len(a) # Len(b) THEN (IF Len(a) < Len(b) THEN -1 ELSE 1)
    ELSE LET diff == { i \in DOMAIN a : a[i] # b[i] }
         IN  IF diff = {} THEN 0
             ELSE LET top == CHOOSE i \in diff : \A k \in diff : k <= i
                  IN  IF a[top] < b[top] THEN -1 ELSE 1

\* The bits acc followed by the next n bits of r / t (r < t), and the
\* remainder left after them.
RECURSIVE DivBits(_, _, _, _)
DivBits(r, t, n, acc) ==
    IF n = 0 THEN [bits |-> acc, rem |-> r]
    ELSE IF 2 * r >= t
    THEN DivBits(2 * r - t, t, n - 1, << 1 >> \o acc)
    ELSE DivBits(2 * r, t, n - 1, << 0 >> \o acc)

\* The least j with count * 2^j >= total.
RECURSIVE DivExponent(_, _)
DivExponent(count, total) ==
    IF count >= total THEN 0 ELSE 1 + DivExponent(2 * count, total)

\* count / total_pixels as a float, for 0 < count <= total: m * 2^-(j + 52)
FloatQuotient(count, total) ==
    LET j == DivExponent(count, total)
        d == DivBits(count * (2 ^ j) - total, total, 52, << 1 >>)
        m == d.bits
        up == 2 * d.rem > total \/ (2 * d.rem = total /\ m[1] = 1)
    IN  [m |-> IF up THEN AddSmall(m, 1) ELSE m, j |-> j]

\* (count / total_pixels) * 100 as a float: M * 2^(s - j - 52)
FloatPercentage(count, total) ==
    LET y == FloatQuotient(count, total)
        P == MulSmall(y.m, 100, 0)
        s == Len(P) - 53
        low == BitsNat(SubSeq(P, 1, s))
        high == SubSeq(P, s + 1, Len(P))
        up == low > 2 ^ (s - 1) \/ (low = 2 ^ (s - 1) /\ high[1] = 1)
    IN  [M |-> IF up THEN AddSmall(high, 1) ELSE high, s |-> s, j |-> y.j]

\* -1, 0 or 1 as the float (count / total_pixels) * 100 is below, equal to
\* or above the exact 100 * count / total
FloatError(count, total) ==
    LET z == FloatPercentage(count, total)
    IN  CompareBits(ShiftLeft(MulSmall(z.M, total, 0), z.s),
                    ShiftLeft(NatBits(100 * count), z.j + 52))

\* round(percentage, 2), in hundredths of a percent: the hundredth nearest
\* to the float; a float exactly half way goes to the even one
Percentage(count, total) ==
    LET q == (count * 10000) \div total
        r == (count * 10000) % total
        e == FloatError(count, total)
    IN  IF 2 * r < total THEN q
        ELSE IF 2 * r > total THEN q + 1
        ELSE IF e < 0 THEN q
        ELSE IF e > 0 THEN q + 1
        ELSE IF q % 2 = 0 THEN q ELSE q + 1

\* the loop that fills color_info: percentage >= 0.1 is kept
color_info(merged, total) ==
    LET kept == SelectSeq(merged, LAMBDA m : m.count * 1000 >= total)
    IN  [i \in DOMAIN kept |->
            [rgb |-> kept[i].color,
             percentage |-> Percentage(kept[i].count, total)]]

\* sorted(color_info, key=lambda x: x["percentage"], reverse=True):
\* descending, entries of equal percentage keep their order
RECURSIVE SortedByPercentage(_)
SortedByPercentage(info) ==
    IF info = << >> THEN << >>
    ELSE LET x == Head(info)
             rest == SortedByPercentage(Tail(info))
             k == Cardinality({ i \in DOMAIN rest :
                                  rest[i].percentage > x.percentage })
         IN  SubSeq(rest, 1, k) \o << x >> \o SubSeq(rest, k + 1, Len(rest))

analyze_image(image, floor) ==
    LET rgb == convert(image)
    IN  SortedByPercentage(
            color_info(merged_colors(Counter(rgb.runs), floor),
                       total_pixels(rgb.runs)))

ColorInit ==
    /\ a_image \in Images
    /\ a_min_pixels \in MinPixelsChoices
    /\ a_result = << >>
    /\ m_pattern = << >> /\ m_element = << >> /\ m_result = << >>
    /\ patterns = << >> /\ file = NoFile /\ p_saved = << >> /\ p_last = "none"
    /\ doc = << >> /\ docClosed = FALSE /\ temp_docs = 0 /\ openTemp = 0
    /\ pc = "idle" /\ loop = NoLoop /\ log = << >> /\ reported = {}
    /\ succeeded = {} /\ last = NoCall

\* ColorAnalyzer(min_pixels=...).analyze_image(image)
AnalyzeImage ==
    /\ a_result = << >>
    /\ a_result' = << analyze_image(a_image, a_min_pixels) >>
    /\ UNCHANGED << a_image, a_min_pixels, patterns, matchVars, fileVars,
                    mainVars >>

ColorNext == AnalyzeImage

SpecColors == ColorInit /\ [][ColorNext]_vars

-----------------------------------------------------------------------------
(* Claims about ColorAnalyzer, checked under SpecColors *)

\* The colours of the pixels of an image, once converted to RGB.
ImageColors(image) ==
    { convert(image).runs[i].value : i \in DOMAIN convert(image).runs }

\* The number of pixels of colour c.
PixelsOf(image, c) ==
    total_pixels(SelectSeq(convert(image).runs, LAMBDA r : r.value = c))

ImagePixels(image) == total_pixels(image.runs)

\* Some channel of the two colours differs by more than 0.05 * 255 = 12.75.
FarApart(c, d) == \E i \in 1..3 : Abs(c[i] - d[i]) * 100 > 1275

\* r has exactly two entries, one per colour of the image, in descending
\* order of percentage, each percentage the colour's share of the pixels
\* to the nearest 0.01, the two summing to 100 within 0.01.
TwoEntries(image, r) ==
    /\ Len(r) = 2
    /\ { r[1].rgb, r[2].rgb } = ImageColors(image)
    /\ r[1].rgb # r[2].rgb
    /\ r[1].percentage >= r[2].percentage
    /\ \A i \in 1..2 :
         2 * Abs(r[i].percentage * ImagePixels(image)
                 - 10000 * PixelsOf(image, r[i].rgb)) <= ImagePixels(image)
    /\ Abs(r[1].percentage + r[2].percentage - 10000) <= 1

\* The image has exactly two colours, each on at least min_pixels pixels.
TwoColourImage ==
    /\ Cardinality(ImageColors(a_image)) = 2
    /\ \A c \in ImageColors(a_image) : PixelsOf(a_image, c) >= a_min_pixels

\* C11 as stated: for any image made of exactly two distinct colours, each
\* occurring at least min_pixels times, analyze_image returns exactly two
\* entries, one per colour, in descending order of percentage, together
\* accounting for all pixels.
C11_TwoColoursTwoEntries ==
    (a_result # << >> /\ TwoColourImage) => TwoEntries(a_image, a_result[1])

\* C11 amended: the same, for two colours that are not similar under the
\* tolerance (some channel differs by more than tolerance * 255) and that
\* each make up at least 0.1 % of the pixels.
C11_TwoDistantColoursTwoEntries ==
    (/\ a_result # << >>
     /\ TwoColourImage
     /\ \A c, d \in ImageColors(a_image) : c # d => FarApart(c, d)
     /\ \A c \in ImageColors(a_image) :
            PixelsOf(a_image, c) * 1000 >= ImagePixels(a_image))
    => TwoEntries(a_image, a_result[1])

\* Two distant colours on 49 and 111 of 160 pixels: the larger comes first
\* though it is second in the data, and both percentages, exactly half way
\* between two hundredths, are rounded up (30.63 + 69.38).
C11_Witness ==
    /\ a_result # << >>
    /\ a_min_pixels = 1
    /\ a_image = [mode |-> "RGB",
                  runs |-> << Run(<<0, 0, 0>>, 49), Run(<<13, 0, 0>>, 111) >>]
    /\ a_result[1] = << [rgb |-> <<13, 0, 0>>, percentage |-> 6938],
                        [rgb |-> <<0, 0, 0>>, percentage |-> 3063] >>

-----------------------------------------------------------------------------
(* Claims about the orchestrator, checked under Spec *)

\* The step just taken was a page rebuild of the named kind.
Rebuilt(l, op) == l.op = op

\* The elements of a page that no registered pattern matches, in order.
Unmatched(pats, elems) ==
    SelectSeq(elems, LAMBDA e : \A i \in DOMAIN pats : ~ matches(pats[i], e))

\* C1: after create_clean_page on a page, with a non-empty pattern set, the
\* reconstructed page contains exactly the elements of the original page
\* that no registered pattern matches, each at its original bounding box,
\* and none of the matched ones.  Stated for the calls in which no engine
\* call raised, which the claim covers too.
C1_RebuiltPageKeepsUnmatched ==
    [][ (/\ Rebuilt(last', "create_clean_page")
         /\ last'.ret = "ok"
         /\ last'.fail \in {"none", "empty"}
         /\ patterns # << >>)
        => doc'[last'.page + 1].elems
             = Unmatched(patterns, doc[last'.page + 1].elems) ]_vars

\* C3: remove_watermarks with zero registered patterns raises, and either
\* range call with an explicit range where start < 0, start > end or
\* end >= pageCount raises; in each case the working document is what it
\* was before the call and no page is attempted.
C3_ValidationAbortsUntouched ==
    [][ (pc = "idle" /\ last'.op \in {"remove_watermarks", "remove_watermarks_by_color"})
        => LET r == last'.arg
               zero == last'.op = "remove_watermarks" /\ patterns = << >>
               bad == /\ r.given
                      /\ (r.start < 0 \/ r.start > r.end \/ r.end >= Len(doc))
           IN  /\ zero => last'.ret = "NoPatterns"
               /\ (bad /\ ~ zero /\ ~ docClosed) => last'.ret = "InvalidRange"
               /\ (zero \/ bad) =>
                    /\ last'.ret \in {"NoPatterns", "InvalidRange", "DocumentClosed"}
                    /\ pc' = "idle"
                    /\ doc' = doc /\ docClosed' = docClosed
                    /\ log' = log ]_vars

\* A by-colour call with end = pageCount, start valid, was refused.
C3_Witness ==
    /\ last.op = "remove_watermarks_by_color"
    /\ last.ret = "InvalidRange"
    /\ last.arg.start = 0
    /\ last.arg.end = Len(doc)
    /\ ~ docClosed

\* C4: after create_clean_page or remove_color finishes on page i, however
\* it ends, the working document has the page count it had before,
\* position i holds the original page or the fully reconstructed one, and
\* every other page is where it was.
C4_PageReplacementAtomic ==
    [][ (Rebuilt(last', "create_clean_page") \/ Rebuilt(last', "remove_color"))
        => /\ Len(doc') = Len(doc)
           /\ \A j \in DOMAIN doc :
                \/ doc'[j] = doc[j]
                \/ /\ j = last'.page + 1
                   /\ \/ \E c \in Colors : doc'[j] = RasterPage(doc[j], c)
                      \/ \E bad \in SUBSET DrawCalls(doc[j].elems, patterns),
                            empty \in SUBSET ImageCalls(doc[j].elems, patterns) :
                            doc'[j] = CleanPage(patterns, doc[j], bad, empty) ]_vars

\* The pages start_page .. end_page crossed with the colours, page by page:
\* the attempts a by-colour run is to make, in order.
ExpectedAttempts(start, end, colors) ==
    [k \in 1..((end - start + 1) * Len(colors)) |->
        [page |-> start + ((k - 1) \div Len(colors)),
         color |-> colors[((k - 1) % Len(colors)) + 1]]]

IsPrefix(s, t) == Len(s) <= Len(t) /\ s = SubSeq(t, 1, Len(s))

\* The colours tried on page p, in the order of the attempts.
TriedOn(p) ==
    LET on == SelectSeq(log, LAMBDA a : a.page = p)
    IN  [k \in DOMAIN on |-> on[k].color]

\* C5: in remove_watermarks_by_color a page is reported as failed only if
\* no colour application succeeded on it; a page on which every colour
\* failed is reported without raising, and every later page of the range is
\* still attempted with every candidate colour.
C5_FailedPageReportedLoopContinues ==
    loop.op = "remove_watermarks_by_color" =>
        /\ reported \cap succeeded = {}
        /\ \A p \in reported : TriedOn(p) = loop.target_colors
        /\ pc = "done" =>
            \A p \in loop.start_page..loop.end_page :
                /\ TriedOn(p) = loop.target_colors
                /\ p \in reported <=> p \notin succeeded

\* A run in which a page failed every colour and a later page succeeded.
C5_Witness ==
    /\ pc = "done"
    /\ loop.op = "remove_watermarks_by_color"
    /\ Len(loop.target_colors) = 2
    /\ \E p \in reported : \E q \in succeeded : p < q

\* C6: for a valid range and batch_size >= 1, remove_watermarks_by_color
\* attempts the pages start .. end in ascending order, each once, trying
\* the colours in the caller's order on each; remove_watermarks attempts
\* start .. end ascending, each once, whatever happens on earlier pages.
C6_AttemptsInOrder ==
    LET expected ==
            ExpectedAttempts(loop.start_page, loop.end_page,
                             IF loop.op = "remove_watermarks" THEN << "-" >>
                             ELSE loop.target_colors)
    IN  loop.op # "none" =>
            /\ IsPrefix(log, expected)
            /\ pc = "done" => log = expected

\* A by-colour run of two pages in two batches, two colours on each page.
C6_Witness ==
    /\ pc = "done"
    /\ loop.op = "remove_watermarks_by_color"
    /\ loop.batch_size = 1
    /\ loop.end_page = loop.start_page + 1
    /\ Len(log) = 4
    /\ log[1].color = "c2" /\ log[2].color = "c1"

\* C7: whenever create_clean_page or remove_color returns or raises, no
\* transient document it opened is still open and temp_docs is empty: the
\* number of open transient documents is 0 between pages.
C7_TransientDocumentsReleased ==
    (Rebuilt(last, "create_clean_page") \/ Rebuilt(last, "remove_color"))
        => last.leak = 0 /\ openTemp = 0 /\ temp_docs = 0

\* C8: save does not raise, and when it returns the output document, every
\* tracked transient document and the working document are closed, whether
\* copying and persisting succeeded or failed.
C8_SaveReleasesEverything ==
    last.op = "save" =>
        /\ last.ret \in {"saved", "error"}
        /\ last.leak = 0
        /\ temp_docs = 0
        /\ docClosed

\* A save that failed while copying, after a removal run.
C8_Witness ==
    /\ last.op = "save"
    /\ last.fail = "copy"
    /\ last.ret = "error"
    /\ pc = "done"

\* The orchestrator is Closed.
Closed == docClosed /\ temp_docs = 0

\* C9: Closed is terminal and cleanup is idempotent: no step leaves Closed,
\* and a cleanup made in Closed, directly or by save, raises nothing and
\* leaves the documents and the orchestrator as they were.
C9_ClosedIsTerminal ==
    [][ Closed =>
          /\ Closed'
          /\ last'.op \in {"cleanup", "save"} =>
                /\ last'.ret \in {"ok", "error"}
                /\ UNCHANGED << doc, docClosed, temp_docs, openTemp, patterns >> ]_vars

\* A cleanup on a closed orchestrator: the engine's close raised, cleanup did not.
C9_Witness ==
    /\ last.op = "cleanup"
    /\ last.fail = "raised"
    /\ last.ret = "ok"
    /\ Closed

====
